---- MODULE Spec2Model ----
(***************************************************************************)
(* DNS Knowledge Quiz (src/Quiz.jsx): the DNSQuiz component as a state     *)
(* machine.  The state is the component's hooks: the five useState cells   *)
(* and the useMemo'd domains object.  One action per button the rendered   *)
(* view offers; each action runs the whole click handler.                  *)
(***************************************************************************)
EXTENDS Integers, Sequences, FiniteSets, TLC

VARIABLES
    domains,          \* useMemo(() => {...}, [])            Quiz.jsx:34-64
    currentQuestion,  \* useState(0)                         Quiz.jsx:66
    score,            \* useState(0)                         Quiz.jsx:67
    selectedAnswer,   \* useState(null)                      Quiz.jsx:68
    showExplanation,  \* useState(false)                     Quiz.jsx:69
    quizComplete,     \* useState(false)                     Quiz.jsx:70
    lastEvent,        \* history: the event handled last: "mount", "answer", "next" or "restart"
    answersAccepted,  \* history: the handleAnswer calls made since the session started
    correctSubmitted, \* history: those of them whose index was the question's correct index
    advancesTaken,    \* history: the handleNext calls made since the session started
    gen               \* the useMemo callback's frame while it runs: its position and locals

vars == <<domains, currentQuestion, score, selectedAnswer, showExplanation, quizComplete,
         lastEvent, answersAccepted, correctSubmitted, advancesTaken, gen>>

(***************************************************************************)
(* Strings are sequences of one-character strings, so that concatenation   *)
(* and split('.') are computed and not assumed.                            *)
(***************************************************************************)

\* The bounds of the model: how many entries of domainWords and of tlds the
\* random draws range over (the code has 10 of each).
NumWords == 2
NumTlds == 2

\* The count of draws made by one getUniqueDomain call is kept up to this
\* number and no further (the loop itself goes on).
MaxAttempts == 3

\* JavaScript's null, the initial value of selectedAnswer.
null == -1

\* const domainWords = ['stellar', 'quantum', 'nexus', 'apex', ...]
domainWords ==
    << <<"s","t","e","l","l","a","r">>,
       <<"q","u","a","n","t","u","m">>,
       <<"n","e","x","u","s">>,
       <<"a","p","e","x">>,
       <<"z","e","n","i","t","h">>,
       <<"v","e","r","t","e","x">>,
       <<"p","u","l","s","e">>,
       <<"f","o","r","g","e">>,
       <<"o","r","b","i","t">>,
       <<"p","r","i","s","m">> >>

\* const tlds = ['.com', '.org', '.net', '.pro', '.cloud', ...]
tlds ==
    << <<".","c","o","m">>,
       <<".","o","r","g">>,
       <<".","n","e","t">>,
       <<".","p","r","o">>,
       <<".","c","l","o","u","d">>,
       <<".","t","e","c","h">>,
       <<".","i","o">>,
       <<".","d","e","v">>,
       <<".","a","p","p">>,
       <<".","s","i","t","e">> >>

Min(a, b) == IF a < b THEN a ELSE b

\* Math.floor(Math.random() * list.length): the indices a draw can give,
\* cut to the first n entries of the list.
RandomIndex(list, n) == 1..Min(n, Len(list))

\* getRandomDomain(): word + tld for one draw of each index.
getRandomDomain(w, t) == domainWords[w] \o tlds[t]

\* Every value getRandomDomain() can return.
RandomDomains ==
    { getRandomDomain(w, t) : w \in RandomIndex(domainWords, NumWords),
                              t \in RandomIndex(tlds, NumTlds) }

\* Mutant: the loop condition never holds, so the first draw is returned.
existingIncludes_never(existing, domain) == FALSE

\* existing.includes(domain), the condition of getUniqueDomain's do-while loop.
existingIncludes(existing, domain) == domain \in existing

\* Mutant: no loop, the first draw is returned whatever existing holds.
getUniqueDomain_firstDraw(existing) == RandomDomains

\* getUniqueDomain(existing): the do-while loop returns the first draw that
\* existing does not include, so it can return exactly the draws outside it.
getUniqueDomain(existing) == { d \in RandomDomains : ~existingIncludes(existing, d) }

\* String.prototype.split(sep) for a one-character separator: the pieces
\* between the occurrences of sep.
RECURSIVE SplitFrom(_, _, _, _)
SplitFrom(s, sep, i, cur) ==
    IF i > Len(s) THEN << cur >>
    ELSE IF s[i] = sep THEN << cur >> \o SplitFrom(s, sep, i + 1, << >>)
    ELSE SplitFrom(s, sep, i + 1, Append(cur, s[i]))

split(s, sep) == SplitFrom(s, sep, 1, << >>)

\* Mutant: subdomain is the whole of primary, the split is forgotten.
DomainSet_subdomainWhole(primary, secondary, example) ==
    [ primary   |-> primary,
      cluster   |-> <<"o","k","d",".">> \o primary,
      secondary |-> secondary,
      example   |-> example,
      subdomain |-> primary,
      tld       |-> <<".">> \o split(primary, ".")[2] ]

\* Mutant: tld is the second piece of the split, without the '.' put back.
DomainSet_tldNoDot(primary, secondary, example) ==
    [ primary   |-> primary,
      cluster   |-> <<"o","k","d",".">> \o primary,
      secondary |-> secondary,
      example   |-> example,
      subdomain |-> split(primary, ".")[1],
      tld       |-> split(primary, ".")[2] ]

\* The object the useMemo callback returns.
DomainSet(primary, secondary, example) ==
    [ primary   |-> primary,
      cluster   |-> <<"o","k","d",".">> \o primary,
      secondary |-> secondary,
      example   |-> example,
      subdomain |-> split(primary, ".")[1],
      tld       |-> <<".">> \o split(primary, ".")[2] ]

\* Every object the useMemo callback can return.
generate ==
    { DomainSet(primary, secondary, example) :
        <<primary, secondary, example>> \in
            { t \in RandomDomains \X RandomDomains \X RandomDomains :
                /\ t[2] \in getUniqueDomain({t[1]})
                /\ t[3] \in getUniqueDomain({t[1], t[2]}) } }

\* questions[k].correct for the questions array, in order.
correct ==
    << 1, 1, 1, 1, 2, 1, 1, 1, 2, 1,
       1, 1, 2, 1, 1, 1, 1, 2, 1, 1,
       1, 1, 1, 1, 1, 1, 1, 1, 1, 1,
       3, 1, 1, 1, 3, 1, 0, 0, 0, 0,
       0, 1, 1, 2, 1, 1, 1, 1, 1, 0,
       1, 1, 1, 1, 1, 1, 2, 1, 1 >>

\* Mutant: the answer key counts the options from 1.
questions_keyFromOne ==
    [ k \in 1..Len(correct) |-> [ correct |-> correct[k] + 1, options |-> 4 ] ]

\* The questions array: each entry's correct index and its number of options.
questions == [ k \in 1..Len(correct) |-> [ correct |-> correct[k], options |-> 4 ] ]

\* The string literals of the questions array that hold a ${...} slot: the
\* question q (from 1) and the field they belong to, the quote they are written
\* with (backtick: a template literal; double: a plain string) and
\* the expressions in their slots, in order, without the leading "domains.".
slottedStrings ==
    <<
       [ q |-> 1, field |-> "explanation", quote |-> "backtick",
         slots |-> << "example", "example" >> ],
       [ q |-> 2, field |-> "explanation", quote |-> "backtick",
         slots |-> << "primary", "primary", "primary" >> ],
       [ q |-> 3, field |-> "explanation", quote |-> "backtick",
         slots |-> << "secondary" >> ],
       [ q |-> 4, field |-> "explanation", quote |-> "backtick",
         slots |-> << "example", "example", "example" >> ],
       [ q |-> 5, field |-> "explanation", quote |-> "backtick",
         slots |-> << "cluster", "cluster" >> ],
       [ q |-> 6, field |-> "question", quote |-> "backtick",
         slots |-> << "cluster" >> ],
       [ q |-> 6, field |-> "explanation", quote |-> "backtick",
         slots |-> << "cluster", "secondary.split0", "cluster" >> ],
       [ q |-> 8, field |-> "explanation", quote |-> "backtick",
         slots |-> << "example", "example" >> ],
       [ q |-> 12, field |-> "explanation", quote |-> "backtick",
         slots |-> << "secondary", "secondary.split1", "secondary.split1", "secondary", "secondary" >> ],
       [ q |-> 13, field |-> "option0", quote |-> "backtick",
         slots |-> << "cluster" >> ],
       [ q |-> 13, field |-> "option1", quote |-> "backtick",
         slots |-> << "cluster" >> ],
       [ q |-> 13, field |-> "option2", quote |-> "backtick",
         slots |-> << "cluster", "cluster" >> ],
       [ q |-> 13, field |-> "explanation", quote |-> "backtick",
         slots |-> << "cluster", "cluster", "cluster" >> ],
       [ q |-> 14, field |-> "explanation", quote |-> "backtick",
         slots |-> << "cluster", "cluster", "cluster" >> ],
       [ q |-> 15, field |-> "explanation", quote |-> "backtick",
         slots |-> << "secondary", "secondary" >> ],
       [ q |-> 16, field |-> "explanation", quote |-> "backtick",
         slots |-> << "primary", "cluster" >> ],
       [ q |-> 17, field |-> "explanation", quote |-> "backtick",
         slots |-> << "primary", "primary", "primary", "primary", "primary", "primary", "primary" >> ],
       [ q |-> 20, field |-> "explanation", quote |-> "backtick",
         slots |-> << "primary", "cluster" >> ],
       [ q |-> 21, field |-> "explanation", quote |-> "backtick",
         slots |-> << "secondary", "tld", "secondary" >> ],
       [ q |-> 22, field |-> "explanation", quote |-> "backtick",
         slots |-> << "secondary", "secondary" >> ],
       [ q |-> 26, field |-> "explanation", quote |-> "backtick",
         slots |-> << "secondary", "secondary" >> ],
       [ q |-> 27, field |-> "explanation", quote |-> "backtick",
         slots |-> << "primary", "primary", "primary", "primary", "primary", "primary", "primary", "primary" >> ],
       [ q |-> 28, field |-> "explanation", quote |-> "backtick",
         slots |-> << "secondary", "secondary", "secondary" >> ],
       [ q |-> 30, field |-> "explanation", quote |-> "backtick",
         slots |-> << "primary" >> ],
       [ q |-> 31, field |-> "explanation", quote |-> "backtick",
         slots |-> << "secondary", "secondary", "secondary" >> ],
       [ q |-> 32, field |-> "explanation", quote |-> "backtick",
         slots |-> << "secondary" >> ],
       [ q |-> 33, field |-> "explanation", quote |-> "backtick",
         slots |-> << "secondary", "secondary" >> ],
       [ q |-> 34, field |-> "explanation", quote |-> "backtick",
         slots |-> << "secondary" >> ],
       [ q |-> 35, field |-> "explanation", quote |-> "backtick",
         slots |-> << "secondary", "secondary", "primary", "cluster", "secondary", "secondary" >> ],
       [ q |-> 38, field |-> "explanation", quote |-> "double",
         slots |-> << "primary" >> ],
       [ q |-> 39, field |-> "explanation", quote |-> "backtick",
         slots |-> << "secondary", "secondary", "secondary", "secondary" >> ],
       [ q |-> 41, field |-> "explanation", quote |-> "double",
         slots |-> << "secondary" >> ],
       [ q |-> 42, field |-> "explanation", quote |-> "backtick",
         slots |-> << "primary", "primary" >> ],
       [ q |-> 47, field |-> "explanation", quote |-> "backtick",
         slots |-> << "tld", "primary", "primary", "primary" >> ],
       [ q |-> 50, field |-> "explanation", quote |-> "double",
         slots |-> << "secondary" >> ],
       [ q |-> 52, field |-> "explanation", quote |-> "backtick",
         slots |-> << "primary", "cluster", "primary", "cluster" >> ],
       [ q |-> 53, field |-> "explanation", quote |-> "backtick",
         slots |-> << "cluster", "cluster", "cluster", "cluster", "cluster", "cluster", "cluster" >> ],
       [ q |-> 55, field |-> "explanation", quote |-> "backtick",
         slots |-> << "primary" >> ]
    >>

\* The value of the expression of a slot for the domains object d.
slotValue(d, slot) ==
    CASE slot = "primary" -> d.primary
      [] slot = "cluster" -> d.cluster
      [] slot = "secondary" -> d.secondary
      [] slot = "example" -> d.example
      [] slot = "tld" -> d.tld
      [] slot = "secondary.split0" -> split(d.secondary, ".")[1]
      [] slot = "secondary.split1" -> split(d.secondary, ".")[2]

\* What a string literal evaluates to, as the pieces that stand where its
\* slots are (the text between them is left out): a template literal has each
\* slot replaced by its value, a plain string keeps the characters ${...}.
renderString(str, d) ==
    [ i \in 1..Len(str.slots) |->
        IF str.quote = "backtick"
        THEN [ marker |-> FALSE, text |-> slotValue(d, str.slots[i]) ]
        ELSE [ marker |-> TRUE, expr |-> str.slots[i] ] ]

\* JavaScript indexes from 0, TLA+ sequences from 1.
currentQ == questions[currentQuestion + 1]

\* Mutant: the buttons pass the option's number, counted from 1.
OptionIndices_fromOne == 1..currentQ.options

\* The indices the option buttons pass to handleAnswer: options.map((option, index) => ...).
OptionIndices == 0..(currentQ.options - 1)

\* Mutant: the selected option is tested before the correct one.
buttonClass_selectedFirst(index) ==
    IF showExplanation
    THEN IF index = selectedAnswer THEN "red"
         ELSE IF index = currentQ.correct THEN "green"
         ELSE "gray"
    ELSE IF selectedAnswer = index THEN "indigo" ELSE "plain"

\* The colour scheme options.map appends to buttonClass for the option at index:
\* green, red or gray border/background once the explanation is shown, indigo
\* or the plain gray-300 border before.
buttonClass(index) ==
    IF showExplanation
    THEN IF index = currentQ.correct THEN "green"
         ELSE IF index = selectedAnswer THEN "red"
         ELSE "gray"
    ELSE IF selectedAnswer = index THEN "indigo" ELSE "plain"

\* Mutant: the denominator is the number of the question on display.
scoreDenominator_questionNumber == currentQuestion + 1

\* The denominator of Score: {score}/{currentQuestion + (showExplanation ? 1 : 0)}.
scoreDenominator == currentQuestion + (IF showExplanation THEN 1 ELSE 0)

\* The icon rendered to the right of the option at index.
optionIcon(index) ==
    IF showExplanation /\ index = currentQ.correct THEN "CheckCircle"
    ELSE IF showExplanation /\ index = selectedAnswer /\ index /= currentQ.correct
         THEN "XCircle"
    ELSE "none"

TypeOK ==
    /\ domains \in generate
    /\ currentQuestion \in Nat
    /\ score \in Int
    /\ selectedAnswer \in {null} \cup 0..3
    /\ showExplanation \in BOOLEAN
    /\ quizComplete \in BOOLEAN
    /\ lastEvent \in {"mount", "answer", "next", "restart"}
    /\ answersAccepted \in 0..Len(questions)
    /\ correctSubmitted \in 0..Len(questions)
    /\ advancesTaken \in 0..Len(questions)
    /\ gen = [pc |-> "done"]

Init ==
    /\ domains \in generate
    /\ currentQuestion = 0
    /\ score = 0
    /\ selectedAnswer = null
    /\ showExplanation = FALSE
    /\ quizComplete = FALSE
    /\ lastEvent = "mount"
    /\ answersAccepted = 0
    /\ correctSubmitted = 0
    /\ advancesTaken = 0
    /\ gen = [pc |-> "done"]

\* Mutant: the score is raised without comparing index with the correct one.
handleAnswer_scoresAlways(index) ==
    /\ selectedAnswer' = index
    /\ showExplanation' = TRUE
    /\ score' = score + 1
    /\ UNCHANGED <<domains, currentQuestion, quizComplete>>

\* Mutant: a wrong answer costs a point.
handleAnswer_penalty(index) ==
    /\ selectedAnswer' = index
    /\ showExplanation' = TRUE
    /\ score' = IF index = questions[currentQuestion + 1].correct THEN score + 1 ELSE score - 1
    /\ UNCHANGED <<domains, currentQuestion, quizComplete>>

\* Mutant: an answer is recorded and scored without showing the explanation.
handleAnswer_noReveal(index) ==
    /\ selectedAnswer' = index
    /\ score' = IF index = questions[currentQuestion + 1].correct THEN score + 1 ELSE score
    /\ UNCHANGED <<domains, currentQuestion, showExplanation, quizComplete>>

\* Mutant: an answer also moves on to the next question.
handleAnswer_autoAdvance(index) ==
    /\ selectedAnswer' = index
    /\ showExplanation' = TRUE
    /\ score' = IF index = questions[currentQuestion + 1].correct THEN score + 1 ELSE score
    /\ currentQuestion' = IF currentQuestion < Len(questions) - 1
                          THEN currentQuestion + 1 ELSE currentQuestion
    /\ UNCHANGED <<domains, quizComplete>>

\* handleAnswer(index)
handleAnswer(index) ==
    /\ selectedAnswer' = index
    /\ showExplanation' = TRUE
    /\ score' = IF index = questions[currentQuestion + 1].correct THEN score + 1 ELSE score
    /\ UNCHANGED <<domains, currentQuestion, quizComplete>>

\* Mutant: setSelectedAnswer(null) is forgotten.
handleNext_keepsSelection ==
    IF currentQuestion < Len(questions) - 1
    THEN /\ currentQuestion' = currentQuestion + 1
         /\ showExplanation' = FALSE
         /\ UNCHANGED <<domains, score, quizComplete, selectedAnswer>>
    ELSE /\ quizComplete' = TRUE
         /\ UNCHANGED <<domains, currentQuestion, score, selectedAnswer, showExplanation>>

\* Mutant: the bound is questions.length instead of questions.length - 1.
handleNext_offByOne ==
    IF currentQuestion < Len(questions)
    THEN /\ currentQuestion' = currentQuestion + 1
         /\ selectedAnswer' = null
         /\ showExplanation' = FALSE
         /\ UNCHANGED <<domains, score, quizComplete>>
    ELSE /\ quizComplete' = TRUE
         /\ UNCHANGED <<domains, currentQuestion, score, selectedAnswer, showExplanation>>

\* Mutant: the bound is questions.length - 2, so the last question is never asked.
handleNext_earlyComplete ==
    IF currentQuestion < Len(questions) - 2
    THEN /\ currentQuestion' = currentQuestion + 1
         /\ selectedAnswer' = null
         /\ showExplanation' = FALSE
         /\ UNCHANGED <<domains, score, quizComplete>>
    ELSE /\ quizComplete' = TRUE
         /\ UNCHANGED <<domains, currentQuestion, score, selectedAnswer, showExplanation>>

\* Mutant: Next moves two questions on.
handleNext_skipsOne ==
    IF currentQuestion < Len(questions) - 1
    THEN /\ currentQuestion' = Min(currentQuestion + 2, Len(questions) - 1)
         /\ selectedAnswer' = null
         /\ showExplanation' = FALSE
         /\ UNCHANGED <<domains, score, quizComplete>>
    ELSE /\ quizComplete' = TRUE
         /\ UNCHANGED <<domains, currentQuestion, score, selectedAnswer, showExplanation>>

\* Mutant: the domains are not memoised, the render after the click draws them anew.
handleNext_newDomains ==
    IF currentQuestion < Len(questions) - 1
    THEN /\ currentQuestion' = currentQuestion + 1
         /\ selectedAnswer' = null
         /\ showExplanation' = FALSE
         /\ domains' \in generate
         /\ UNCHANGED <<score, quizComplete>>
    ELSE /\ quizComplete' = TRUE
         /\ domains' \in generate
         /\ UNCHANGED <<currentQuestion, score, selectedAnswer, showExplanation>>

\* handleNext()
handleNext ==
    IF currentQuestion < Len(questions) - 1
    THEN /\ currentQuestion' = currentQuestion + 1
         /\ selectedAnswer' = null
         /\ showExplanation' = FALSE
         /\ UNCHANGED <<domains, score, quizComplete>>
    ELSE /\ quizComplete' = TRUE
         /\ UNCHANGED <<domains, currentQuestion, score, selectedAnswer, showExplanation>>

\* Mutant: setScore(0) is forgotten.
handleRestart_keepsScore ==
    /\ currentQuestion' = 0
    /\ selectedAnswer' = null
    /\ showExplanation' = FALSE
    /\ quizComplete' = FALSE
    /\ UNCHANGED <<domains, score>>

\* handleRestart(): the component stays mounted, so the useMemo'd domains
\* (dependency list []) are not computed again.
handleRestart ==
    /\ currentQuestion' = 0
    /\ score' = 0
    /\ selectedAnswer' = null
    /\ showExplanation' = FALSE
    /\ quizComplete' = FALSE
    /\ UNCHANGED domains

\* Mutant: the option buttons stay live after an answer (no !showExplanation
\* test, not disabled).
ClickOption_notDisabled(index) ==
    /\ ~quizComplete
    /\ handleAnswer(index)
    /\ lastEvent' = "answer"
    /\ answersAccepted' = answersAccepted + 1
    /\ correctSubmitted' = correctSubmitted + (IF index = correct[currentQuestion + 1] THEN 1 ELSE 0)
    /\ UNCHANGED advancesTaken
    /\ UNCHANGED gen

\* Mutant: the option buttons are also rendered, and live, in the completion view.
ClickOption_liveWhenComplete(index) ==
    /\ quizComplete \/ ~showExplanation
    /\ handleAnswer(index)
    /\ lastEvent' = "answer"
    /\ answersAccepted' = answersAccepted + 1
    /\ correctSubmitted' = correctSubmitted + (IF index = correct[currentQuestion + 1] THEN 1 ELSE 0)
    /\ UNCHANGED advancesTaken
    /\ UNCHANGED gen

\* A click on option button index: rendered in the question view only, with
\* onClick={() => !showExplanation && handleAnswer(index)} and disabled={showExplanation}.
ClickOption(index) ==
    /\ ~quizComplete
    /\ ~showExplanation
    /\ handleAnswer(index)
    /\ lastEvent' = "answer"
    /\ answersAccepted' = answersAccepted + 1
    /\ correctSubmitted' = correctSubmitted + (IF index = correct[currentQuestion + 1] THEN 1 ELSE 0)
    /\ UNCHANGED advancesTaken
    /\ UNCHANGED gen

\* Mutant: the Next button is rendered before an answer is given.
ClickNext_alwaysRendered ==
    /\ ~quizComplete
    /\ handleNext
    /\ lastEvent' = "next"
    /\ UNCHANGED answersAccepted
    /\ UNCHANGED correctSubmitted
    /\ advancesTaken' = advancesTaken + 1
    /\ UNCHANGED gen

\* Mutant: no See Results button on the last question.
ClickNext_hiddenOnLast ==
    /\ ~quizComplete
    /\ showExplanation
    /\ currentQuestion < Len(questions) - 1
    /\ handleNext
    /\ lastEvent' = "next"
    /\ UNCHANGED answersAccepted
    /\ UNCHANGED correctSubmitted
    /\ advancesTaken' = advancesTaken + 1
    /\ UNCHANGED gen

\* A click on the Next Question / See Results button: rendered in the question
\* view only, and only when showExplanation.
ClickNext ==
    /\ ~quizComplete
    /\ showExplanation
    /\ handleNext
    /\ lastEvent' = "next"
    /\ UNCHANGED answersAccepted
    /\ UNCHANGED correctSubmitted
    /\ advancesTaken' = advancesTaken + 1
    /\ UNCHANGED gen

\* Mutant: Try Again is rendered in every view.
ClickTryAgain_anyView ==
    /\ handleRestart
    /\ lastEvent' = "restart"
    /\ answersAccepted' = 0
    /\ correctSubmitted' = 0
    /\ advancesTaken' = 0
    /\ UNCHANGED gen

\* A click on Try Again: rendered in the completion view only.
ClickTryAgain ==
    /\ quizComplete
    /\ handleRestart
    /\ lastEvent' = "restart"
    /\ answersAccepted' = 0
    /\ correctSubmitted' = 0
    /\ advancesTaken' = 0
    /\ UNCHANGED gen

Next ==
    \/ \E index \in OptionIndices : ClickOption(index)
    \/ ClickNext
    \/ ClickTryAgain

Spec == Init /\ [][Next]_vars

\* questions.length
Total == Len(questions)

\* A user who answers and presses Next and never restarts: one mounted
\* component, with one of the DomainSets its mount can produce, and the two
\* buttons pressed whenever they stay on offer.
InitPlay ==
    /\ Init
    /\ domains = DomainSet(getRandomDomain(1, 1), getRandomDomain(1, 2), getRandomDomain(2, 1))

Play ==
    \/ \E index \in OptionIndices : ClickOption(index)
    \/ ClickNext

SpecPlay ==
    /\ InitPlay
    /\ [][Play]_vars
    /\ WF_vars(\E index \in OptionIndices : ClickOption(index))
    /\ WF_vars(ClickNext)

(***************************************************************************)
(* Two events handled against the same rendered snapshot.  A handler is a  *)
(* closure of the render that created it: it reads that render's values of *)
(* the cells and calls setters with values computed from them; the calls   *)
(* are applied in order before the next render.                            *)
(***************************************************************************)
\* Most events of a session that a stale snapshot handles, to keep the history
\* counters finite.
MaxStaleEvents == 1

\* The values of the useState cells a render closes its handlers over.
cells ==
    [ currentQuestion |-> currentQuestion,
      score           |-> score,
      selectedAnswer  |-> selectedAnswer,
      showExplanation |-> showExplanation,
      quizComplete    |-> quizComplete ]

\* The setter calls handleAnswer(index) makes when it is the closure of snap.
handleAnswerCalls(snap, index) ==
    << [cell |-> "selectedAnswer", value |-> index],
       [cell |-> "showExplanation", value |-> TRUE] >>
    \o (IF index = questions[snap.currentQuestion + 1].correct
        THEN << [cell |-> "score", value |-> snap.score + 1] >>
        ELSE << >>)

\* The setter calls handleNext() makes when it is the closure of snap.
handleNextCalls(snap) ==
    IF snap.currentQuestion < Len(questions) - 1
    THEN << [cell |-> "currentQuestion", value |-> snap.currentQuestion + 1],
            [cell |-> "selectedAnswer", value |-> null],
            [cell |-> "showExplanation", value |-> FALSE] >>
    ELSE << [cell |-> "quizComplete", value |-> TRUE] >>

\* The cells after the queued setter calls are applied in order: each call
\* passes a value, not an updater function, so the last call to a cell wins.
RECURSIVE applyCalls(_, _)
applyCalls(c, calls) ==
    IF Len(calls) = 0 THEN c
    ELSE applyCalls([c EXCEPT ![Head(calls).cell] = Head(calls).value], Tail(calls))

\* The render that follows: the cells take the values in c.
Rerender(c) ==
    /\ currentQuestion' = c.currentQuestion
    /\ score' = c.score
    /\ selectedAnswer' = c.selectedAnswer
    /\ showExplanation' = c.showExplanation
    /\ quizComplete' = c.quizComplete
    /\ UNCHANGED domains

\* The events of the session so far that a snapshot handled after an earlier
\* event had already been handled against it.
staleEvents ==
    (answersAccepted - scoreDenominator)
    + (advancesTaken - currentQuestion - (IF quizComplete THEN 1 ELSE 0))

\* Two option clicks, on a and then on b, both handled by the closures of the
\* same render of the question view, which has no answer revealed: both pass
\* the test !showExplanation and neither button is disabled yet.
TwoAnswerEvents(a, b) ==
    /\ ~quizComplete
    /\ ~showExplanation
    /\ staleEvents < MaxStaleEvents
    /\ Rerender(applyCalls(cells, handleAnswerCalls(cells, a) \o handleAnswerCalls(cells, b)))
    /\ lastEvent' = "answer"
    /\ answersAccepted' = answersAccepted + 2
    /\ correctSubmitted' = correctSubmitted
                             + (IF a = correct[currentQuestion + 1] THEN 1 ELSE 0)
                             + (IF b = correct[currentQuestion + 1] THEN 1 ELSE 0)
    /\ UNCHANGED <<advancesTaken, gen>>

\* Mutant: the second click is handled by the closure of a new render.
TwoNextEvents_rerendered ==
    /\ ~quizComplete
    /\ showExplanation
    /\ staleEvents < MaxStaleEvents
    /\ Rerender(applyCalls(cells, handleNextCalls(cells)
                                  \o handleNextCalls(applyCalls(cells, handleNextCalls(cells)))))
    /\ lastEvent' = "next"
    /\ advancesTaken' = advancesTaken + 2
    /\ UNCHANGED <<answersAccepted, correctSubmitted, gen>>

\* Two clicks on the Next button, both handled by the closure of the same
\* render of the question view, which shows the explanation.
TwoNextEvents ==
    /\ ~quizComplete
    /\ showExplanation
    /\ staleEvents < MaxStaleEvents
    /\ Rerender(applyCalls(cells, handleNextCalls(cells) \o handleNextCalls(cells)))
    /\ lastEvent' = "next"
    /\ advancesTaken' = advancesTaken + 2
    /\ UNCHANGED <<answersAccepted, correctSubmitted, gen>>

NextSnapshot ==
    \/ \E index \in OptionIndices : ClickOption(index)
    \/ ClickNext
    \/ ClickTryAgain
    \/ \E a \in OptionIndices, b \in OptionIndices : TwoAnswerEvents(a, b)
    \/ TwoNextEvents

SpecSnapshot == InitPlay /\ [][NextSnapshot]_vars

\* Mutant: the thresholds are strict lower bounds.
getScoreMessageOf_strict(s, n) ==
    IF 100 * s = 100 * n THEN "perfect"
    ELSE IF 100 * s > 80 * n THEN "excellent"
    ELSE IF 100 * s > 60 * n THEN "good"
    ELSE IF 100 * s > 40 * n THEN "not bad"
    ELSE "keep learning"

\* getScoreMessage() for score = s and questions.length = n, each message named
\* by its opening words.  percentage = (s / n) * 100 is not rounded; a test
\* percentage >= t is 100 * s >= t * n.
getScoreMessageOf(s, n) ==
    IF 100 * s = 100 * n THEN "perfect"
    ELSE IF 100 * s >= 80 * n THEN "excellent"
    ELSE IF 100 * s >= 60 * n THEN "good"
    ELSE IF 100 * s >= 40 * n THEN "not bad"
    ELSE "keep learning"

\* getScoreMessage() as the completion view calls it.
getScoreMessage == getScoreMessageOf(score, Len(questions))

\* Math.round((s / n) * 100): Math.round(x) is floor(x + 0.5).
RoundedPercentageOf(s, n) == (200 * s + n) \div (2 * n)

\* The percentage the completion view shows: Math.round((score / questions.length) * 100).
DisplayedPercentage == RoundedPercentageOf(score, Len(questions))

(***************************************************************************)
(* The mount of the component, step by step: the useMemo callback of lines *)
(* 34-64, one action per random draw.  gen.pc is the statement the         *)
(* callback is at; gen.attempts counts the draws of the getUniqueDomain    *)
(* call in progress.                                                       *)
(***************************************************************************)

\* A variable that has no value yet.
undefined == << >>

\* The useState cells as the first render creates them.
QuizCellsAtMount ==
    /\ currentQuestion = 0
    /\ score = 0
    /\ selectedAnswer = null
    /\ showExplanation = FALSE
    /\ quizComplete = FALSE
    /\ lastEvent = "mount"
    /\ answersAccepted = 0
    /\ correctSubmitted = 0
    /\ advancesTaken = 0

GenInit ==
    /\ QuizCellsAtMount
    /\ domains = undefined
    /\ gen = [ pc |-> "primary", primary |-> undefined, secondary |-> undefined,
               example |-> undefined, domain |-> undefined, attempts |-> 0 ]

\* const primary = getRandomDomain();
GenPrimary(w, t) ==
    /\ gen.pc = "primary"
    /\ gen' = [gen EXCEPT !.primary = getRandomDomain(w, t), !.pc = "secondary"]
    /\ UNCHANGED <<domains, currentQuestion, score, selectedAnswer, showExplanation,
                   quizComplete, lastEvent, answersAccepted, correctSubmitted,
                   advancesTaken>>

\* The array getUniqueDomain is called with at gen.pc.
GenExisting ==
    IF gen.pc = "secondary" THEN {gen.primary} ELSE {gen.primary, gen.secondary}

\* One round of getUniqueDomain's do-while loop: domain = getRandomDomain(),
\* then the test existing.includes(domain); when it fails the call returns
\* domain to the const it initialises.
GenUniqueRound(w, t) ==
    /\ gen.pc \in {"secondary", "example"}
    /\ LET domain == getRandomDomain(w, t)
           drawn == [gen EXCEPT !.domain = domain,
                                !.attempts = Min(gen.attempts + 1, MaxAttempts)]
       IN  gen' = IF existingIncludes(GenExisting, domain)
                  THEN drawn
                  ELSE IF gen.pc = "secondary"
                       THEN [drawn EXCEPT !.secondary = domain, !.pc = "example",
                                          !.domain = undefined, !.attempts = 0]
                       ELSE [drawn EXCEPT !.example = domain, !.pc = "return"]
    /\ UNCHANGED <<domains, currentQuestion, score, selectedAnswer, showExplanation,
                   quizComplete, lastEvent, answersAccepted, correctSubmitted,
                   advancesTaken>>

\* return { primary: primary, cluster: 'okd.' + primary, ... }: the callback
\* ends and useMemo keeps the object.
GenReturn ==
    /\ gen.pc = "return"
    /\ domains' = DomainSet(gen.primary, gen.secondary, gen.example)
    /\ gen' = [pc |-> "done"]
    /\ UNCHANGED <<currentQuestion, score, selectedAnswer, showExplanation,
                   quizComplete, lastEvent, answersAccepted, correctSubmitted,
                   advancesTaken>>

GenNext ==
    \/ \E w \in RandomIndex(domainWords, NumWords), t \in RandomIndex(tlds, NumTlds) :
           GenPrimary(w, t)
    \/ \E w \in RandomIndex(domainWords, NumWords), t \in RandomIndex(tlds, NumTlds) :
           GenUniqueRound(w, t)
    \/ GenReturn

SpecGen == GenInit /\ [][GenNext]_vars

\* The callback runs synchronously to its end: while it has a statement to run,
\* it runs it.
SpecGenFair == GenInit /\ [][GenNext]_vars /\ WF_vars(GenNext)

(***************************************************************************)
(* The claims.  submitAnswer is a click on an option button, advance a     *)
(* click on the Next button, restart a click on Try Again; InProgress is   *)
(* ~quizComplete, answerRevealed is showExplanation, currentIndex is       *)
(* currentQuestion.                                                        *)
(***************************************************************************)

\* C1: submitAnswer(i), invoked in InProgress with answerRevealed = false and
\* 0 <= i < 4, sets selectedAnswer = i and answerRevealed = true, and raises
\* score by exactly 1 when i is the current question's correct index and by 0
\* otherwise.
C1_SubmitAnswer ==
    [][\A i \in 0..3 :
           (~quizComplete /\ ~showExplanation /\ ClickOption(i)) =>
               /\ selectedAnswer' = i
               /\ showExplanation' = TRUE
               /\ score' - score = (IF i = correct[currentQuestion + 1] THEN 1 ELSE 0)]_vars

\* A wrong answer to the second question after a right answer to the first.
C1_Witness ==
    /\ lastEvent = "answer"
    /\ currentQuestion = 1
    /\ selectedAnswer \in 0..3
    /\ selectedAnswer /= correct[2]
    /\ score = 1

\* C2: in every reachable state 0 <= score <= total, the number of questions.
C2_ScoreInRange == 0 <= score /\ score <= Total

\* A session that answered every question right.
C2_Witness == score = Total /\ Total > 0

\* C3: within a session no submitAnswer and no advance lowers the score; only
\* restart may lower it.
C3_ScoreMonotone ==
    [][/\ ((\E i \in 0..3 : ClickOption(i)) \/ ClickNext) => score' >= score
       /\ score' < score => lastEvent' = "restart"]_vars

\* An advance taken with a positive score.
C3_Witness == lastEvent = "next" /\ ~quizComplete /\ score = 2 /\ currentQuestion = 3

\* C4: in every reachable state score <= currentIndex + (answerRevealed ? 1 : 0).
C4_ScoreAtMostAnswered ==
    score <= currentQuestion + (IF showExplanation THEN 1 ELSE 0)

\* Three right answers in a row: the bound is met.
C4_Witness == showExplanation /\ currentQuestion = 2 /\ score = 3

\* C5: in every reachable state selectedAnswer is none exactly when
\* answerRevealed is false.
C5_SelectedIffRevealed == (selectedAnswer = null) <=> ~showExplanation

\* An answer was given and the next question is shown with no selection.
C5_Witness ==
    lastEvent = "next" /\ currentQuestion = 1 /\ selectedAnswer = null /\ ~showExplanation

\* C6: in every reachable state that is not Complete, 0 <= currentIndex < bank.length.
C6_IndexInBank == ~quizComplete => (0 <= currentQuestion /\ currentQuestion < Len(questions))

\* The last question is on display.
C6_Witness == ~quizComplete /\ currentQuestion = Len(questions) - 1

\* C7: advance() with answerRevealed = true on a question that is not the last
\* raises currentIndex by 1, clears selectedAnswer and answerRevealed, stays
\* InProgress and leaves score unchanged.
C7_AdvanceMiddle ==
    [][(showExplanation /\ currentQuestion /= Total - 1 /\ ClickNext) =>
           /\ currentQuestion' = currentQuestion + 1
           /\ selectedAnswer' = null
           /\ showExplanation' = FALSE
           /\ quizComplete' = FALSE
           /\ score' = score]_vars

\* An advance from the first question, answered right.
C7_Witness == lastEvent = "next" /\ currentQuestion = 1 /\ score = 1 /\ ~quizComplete

\* C8: advance() with answerRevealed = true on the last question goes to
\* Complete and leaves score and currentIndex unchanged; Complete is entered in
\* no other way.
C8_AdvanceLast ==
    [][/\ (showExplanation /\ currentQuestion = Total - 1 /\ ClickNext) =>
              (quizComplete' /\ score' = score /\ currentQuestion' = currentQuestion)
       /\ (~quizComplete /\ quizComplete') =>
              (showExplanation /\ currentQuestion = Total - 1 /\ lastEvent' = "next")]_vars

\* Complete, entered from the last question.
C8_Witness ==
    quizComplete /\ lastEvent = "next" /\ currentQuestion = Total - 1 /\ score = 1

\* C9: once Complete, no submitAnswer and no advance takes effect: until
\* restart, score, currentIndex and complete stay as they are.
C9_CompleteFrozen ==
    [][quizComplete =>
           \/ lastEvent' = "restart"
           \/ UNCHANGED <<score, currentQuestion, quizComplete>>]_vars

\* Complete with the last answer still on display.
C9_Witness == quizComplete /\ showExplanation /\ selectedAnswer = correct[Total]

\* The values the useState cells start with.
InitialQuizState ==
    /\ currentQuestion = 0
    /\ score = 0
    /\ selectedAnswer = null
    /\ showExplanation = FALSE
    /\ quizComplete = FALSE

\* C10: the state at session start, and the state right after every restart(),
\* is currentIndex = 0, score = 0, selectedAnswer = none, answerRevealed = false,
\* complete = false.
C10_FreshState == lastEvent \in {"mount", "restart"} => InitialQuizState

\* A restart was taken.
C10_Witness == lastEvent = "restart" /\ currentQuestion = 0 /\ ~quizComplete

\* C13: every DomainSet generate() produces, for every sequence of random
\* draws, has primary, secondary and example pairwise distinct.
C13_PairwiseDistinct ==
    /\ gen.pc = "example" => gen.secondary /= gen.primary
    /\ gen.pc = "return" =>
           /\ gen.primary /= gen.secondary
           /\ gen.primary /= gen.example
           /\ gen.secondary /= gen.example
    /\ gen.pc = "done" =>
           /\ domains.primary /= domains.secondary
           /\ domains.primary /= domains.example
           /\ domains.secondary /= domains.example
           /\ domains \in generate

\* The third domain was accepted after at least two rejected draws.
C13_Witness == gen.pc = "return" /\ gen.attempts = MaxAttempts

\* C11 (as claimed): restart() runs the domain generator again, so the
\* DomainSet after a restart comes from draws made at restart time: whatever the
\* stored DomainSet is, a restart can end with any DomainSet the generator can
\* produce.
C11_RestartRegenerates ==
    quizComplete => \A d \in generate : ENABLED (ClickTryAgain /\ domains' = d)

C14_NoSecondAnswer ==
    \A i \in 0..3 :
        /\ showExplanation =>
               ~ENABLED (ClickOption(i) /\ (score' /= score \/ selectedAnswer' /= selectedAnswer))
        /\ ~ENABLED (ClickOption(i) /\ score' > score + 1)

\* A wrong answer is on display and the right option is still on the screen.
C14_Witness ==
    /\ ~quizComplete /\ showExplanation /\ currentQuestion = 2
    /\ selectedAnswer /= correct[3] /\ score = 2

\* C15: advance() is enabled only when answerRevealed = true, so no question
\* is left without an answer.
C15_AdvanceOnlyWhenRevealed ==
    ENABLED ClickNext => (showExplanation /\ selectedAnswer \in 0..3)

\* An unanswered question in the middle of the bank.
C15_Witness == ~quizComplete /\ ~showExplanation /\ currentQuestion = 5 /\ score = 5

\* C16: the message tier is chosen by inclusive lower bounds tested
\* highest-first: 100 gives "perfect", >= 80 "excellent", >= 60 "good", >= 40
\* "not bad", anything lower "keep learning"; with total = 50, score 40 gives
\* "excellent", 50 "perfect", 19 "keep learning".
C16_MessageTiers ==
    /\ quizComplete =>
           /\ getScoreMessage = "perfect" <=> 100 * score = 100 * Total
           /\ getScoreMessage = "excellent" <=>
                  (80 * Total <= 100 * score /\ 100 * score < 100 * Total)
           /\ getScoreMessage = "good" <=>
                  (60 * Total <= 100 * score /\ 100 * score < 80 * Total)
           /\ getScoreMessage = "not bad" <=>
                  (40 * Total <= 100 * score /\ 100 * score < 60 * Total)
           /\ getScoreMessage = "keep learning" <=> 100 * score < 40 * Total
    /\ getScoreMessageOf(40, 50) = "excellent"
    /\ getScoreMessageOf(50, 50) = "perfect"
    /\ getScoreMessageOf(19, 50) = "keep learning"
    /\ getScoreMessageOf(30, 50) = "good"
    /\ getScoreMessageOf(20, 50) = "not bad"

\* The completion view with the lowest score of the "excellent" tier.
C16_Witness == quizComplete /\ getScoreMessage = "excellent" /\ score = 48

\* The tier the thresholds give to a whole percentage p.
TierOfPercentage(p) ==
    IF p = 100 THEN "perfect"
    ELSE IF p >= 80 THEN "excellent"
    ELSE IF p >= 60 THEN "good"
    ELSE IF p >= 40 THEN "not bad"
    ELSE "keep learning"

\* C17 (as claimed): the message is selected by the thresholds applied to the
\* percentage that is displayed, round(100 * score / total), for every score
\* of the bank.
C17_MessageAgreesWithDisplay ==
    quizComplete => getScoreMessage = TierOfPercentage(DisplayedPercentage)

\* C18 (as claimed): the question bank has exactly 50 questions, so total = 50
\* and Complete is reached after exactly 50 answered questions.
C18_FiftyQuestions ==
    /\ Len(questions) = 50
    /\ quizComplete => currentQuestion + 1 = 50

\* C19 (as claimed): for every question of the bank, every domain placeholder
\* in its text, options and explanation is replaced by the DomainSet value: no
\* rendered string holds a leftover marker ${domains...}.
C19_NoLeftoverMarkers ==
    \A k \in 1..Len(slottedStrings) :
        LET rendered == renderString(slottedStrings[k], domains)
        IN  \A i \in 1..Len(rendered) : ~rendered[i].marker

\* C20 (as claimed): getUniqueDomain's resampling is bounded: a call makes at
\* most a fixed number of draws and then ends in a "generation exhausted"
\* failure.  Stated for a cap of fewer than MaxAttempts draws: no call is still
\* in its loop, about to draw again, after MaxAttempts rejected draws.
C20_RetriesBounded ==
    ~(/\ gen.pc \in {"secondary", "example"}
      /\ gen.attempts >= MaxAttempts
      /\ existingIncludes(GenExisting, gen.domain)
      /\ ENABLED GenNext)

\* C21 (as claimed): every operation runs to completion; generate() ends for
\* every sequence of random draws, both getUniqueDomain loops always exit.
C21_GenerateTerminates == <>(gen.pc = "done")

\* C22: the DomainSet, and with it the question bank every render builds from
\* it, does not change within a session: no submitAnswer and no advance can
\* change it.
C22_DomainsImmutable ==
    ~ENABLED (/\ (\E i \in 0..3 : ClickOption(i)) \/ ClickNext
              /\ domains' /= domains)

\* A session in which answers and advances have been taken.
C22_Witness == lastEvent = "next" /\ currentQuestion = 6 /\ score = 3 /\ domains \in generate

\* C23 (as claimed): the run start -> correct option on Q1 -> advance ->
\* incorrect option on Q2 -> advance -> restart passes through score = 1,
\* currentIndex = 1, score still 1, currentIndex = 2, and its restart ends in
\* currentIndex = 0, score = 0 with a newly generated DomainSet: any DomainSet
\* the generator can produce (all of them pairwise distinct, C13).
C23_EndToEndRun ==
    /\ (currentQuestion = 0 /\ ~showExplanation /\ ~quizComplete)
          => ENABLED (ClickOption(questions[1].correct) /\ score' = 1)
    /\ (currentQuestion = 0 /\ showExplanation /\ score = 1)
          => ENABLED (ClickNext /\ currentQuestion' = 1 /\ score' = 1)
    /\ (currentQuestion = 1 /\ ~showExplanation /\ score = 1)
          => \E i \in OptionIndices :
                /\ i /= questions[2].correct
                /\ ENABLED (ClickOption(i) /\ score' = 1)
    /\ (currentQuestion = 1 /\ showExplanation /\ score = 1
                             /\ selectedAnswer /= questions[2].correct)
          => ENABLED (ClickNext /\ currentQuestion' = 2 /\ score' = 1)
    /\ (currentQuestion = 2 /\ ~showExplanation /\ score = 1)
          => \A d \in generate :
                ENABLED (/\ handleRestart
                         /\ lastEvent' = "restart"
                         /\ answersAccepted' = 0
                         /\ correctSubmitted' = 0
                         /\ advancesTaken' = 0
                         /\ UNCHANGED gen
                         /\ currentQuestion' = 0
                         /\ score' = 0
                         /\ domains' = d)

\* Position of the first dot of s; the parts of s before it and from it on.
FirstDot(s) == CHOOSE i \in 1..Len(s) : s[i] = "." /\ \A j \in 1..(i - 1) : s[j] /= "."
BeforeFirstDot(s) == SubSeq(s, 1, FirstDot(s) - 1)
FromFirstDot(s) == SubSeq(s, FirstDot(s), Len(s))

DerivedFieldsOK(d) ==
    /\ d.cluster = <<"o","k","d",".">> \o d.primary
    /\ d.subdomain = BeforeFirstDot(d.primary)
    /\ d.tld = FromFirstDot(d.primary)

\* C24: for every generated DomainSet, cluster is "okd." + primary, subdomain
\* is the part of primary before its first dot and tld the part from its first
\* dot on: for the object a finished generation has stored, and for the object
\* built from any word and TLD of the full lists as primary.
C24_DerivedFields ==
    /\ gen.pc = "done" => DerivedFieldsOK(domains)
    /\ \A w \in 1..Len(domainWords), t \in 1..Len(tlds) :
          DerivedFieldsOK(DomainSet(getRandomDomain(w, t),
                                    getRandomDomain(1, 1), getRandomDomain(1, 2)))

\* A finished generation whose primary is quantum.org.
C24_Witness ==
    /\ gen.pc = "done"
    /\ domains.subdomain = <<"q","u","a","n","t","u","m">>
    /\ domains.tld = <<".","o","r","g">>

\* C25: every question of the bank has exactly 4 options and a correct index in
\* 0..3, and the answer key is the same in every session: in the first session
\* and in every one after a restart, the option that scores at question k is
\* the fixed correct index of question k and no other.
C25_FixedOptionsAndKey ==
    /\ \A k \in 1..Len(questions) :
          questions[k].options = 4 /\ questions[k].correct \in 0..3
    /\ OptionIndices = 0..3
    /\ (~quizComplete /\ ~showExplanation) =>
          \A i \in 0..3 :
             (ENABLED (ClickOption(i) /\ score' = score + 1))
                <=> i = correct[currentQuestion + 1]

\* The first question of a session started by a restart.
C25_Witness ==
    /\ lastEvent = "restart"
    /\ currentQuestion = 0
    /\ currentQ.correct = 1
    /\ ENABLED (ClickOption(1) /\ score' = 1)

\* How an option button reads: correct (green), incorrect (red), selected
\* (indigo) or neutral (gray or plain).
renderStateOf(class) ==
    CASE class = "green"  -> "correct"
      [] class = "red"    -> "incorrect"
      [] class = "indigo" -> "selected"
      [] OTHER            -> "neutral"

\* C26: in the question view, while the answer is not revealed every option is
\* neutral; once it is revealed the option at the correct index is shown
\* correct, the selected option is shown incorrect iff it is not the correct
\* one, every other option is neutral, so exactly one option is marked correct
\* and at most one incorrect. The icons follow the same marking.
C26_OptionRenderState ==
    ~quizComplete =>
        LET state(i) == renderStateOf(buttonClass(i))
            markedCorrect == { i \in OptionIndices : state(i) = "correct" }
            markedIncorrect == { i \in OptionIndices : state(i) = "incorrect" }
        IN  /\ ~showExplanation =>
                \A i \in OptionIndices : state(i) = "neutral" /\ optionIcon(i) = "none"
            /\ showExplanation =>
                /\ markedCorrect = {currentQ.correct}
                /\ markedIncorrect = {selectedAnswer} \ {currentQ.correct}
                /\ \A i \in OptionIndices \ {currentQ.correct, selectedAnswer} :
                      state(i) = "neutral"
                /\ Cardinality(markedCorrect) = 1
                /\ Cardinality(markedIncorrect) <= 1
                /\ \A i \in OptionIndices :
                      /\ optionIcon(i) = "CheckCircle" <=> i \in markedCorrect
                      /\ optionIcon(i) = "XCircle" <=> i \in markedIncorrect

\* A revealed question answered with its correct option: one option marked
\* correct, none incorrect.
C26_Witness ==
    /\ ~quizComplete
    /\ showExplanation
    /\ currentQuestion = 4
    /\ selectedAnswer = currentQ.correct
    /\ buttonClass(selectedAnswer) = "green"

\* C27: in every InProgress state the denominator of the running score display
\* equals the number of submitAnswer operations accepted since the session
\* started, and it is never smaller than the score.
C27_DenominatorCountsAnswers ==
    ~quizComplete =>
        /\ scoreDenominator = answersAccepted
        /\ scoreDenominator >= score

\* The sixth question of a session, just answered, two of the six answers
\* correct.
C27_Witness ==
    /\ ~quizComplete
    /\ showExplanation
    /\ currentQuestion = 5
    /\ answersAccepted = 6
    /\ score = 2

\* d is a word of domainWords followed by a TLD of tlds.
IsWordPlusTld(d) ==
    \E w \in 1..Len(domainWords), t \in 1..Len(tlds) : d = domainWords[w] \o tlds[t]

\* C28: getUniqueDomain(existing) only ever returns a domain that existing does
\* not hold, and that domain is a word+tld combination of the fixed lists: for
\* every array of one or two domains as existing, and for each of the two calls of a
\* generation, where a round of the loop ends the call only with a draw outside
\* the array it was called with.
C28_UniqueDomainResult ==
    /\ \A existing \in { {a, b} : a, b \in RandomDomains } :
          \A d \in getUniqueDomain(existing) : d \notin existing /\ IsWordPlusTld(d)
    /\ gen.pc \in {"secondary", "example"} =>
          \A w \in RandomIndex(domainWords, NumWords), t \in RandomIndex(tlds, NumTlds) :
             (ENABLED (GenUniqueRound(w, t) /\ gen'.pc /= gen.pc))
                => getRandomDomain(w, t) \notin GenExisting
    /\ gen.pc \in {"example", "return"} =>
          gen.secondary \notin {gen.primary} /\ IsWordPlusTld(gen.secondary)
    /\ gen.pc = "return" =>
          gen.example \notin {gen.primary, gen.secondary} /\ IsWordPlusTld(gen.example)

\* The second call returned quantum.org on its second draw.
C28_Witness ==
    /\ gen.pc = "return"
    /\ gen.attempts = 2
    /\ gen.example = <<"q","u","a","n","t","u","m",".","o","r","g">>

\* C30: submitAnswer leaves currentIndex, complete and the DomainSet (and so
\* the question bank built from it) as they are: no option click can end in a
\* state where one of them differs.
C30_SubmitFrame ==
    \A i \in 0..3 :
       ~ENABLED (/\ ClickOption(i)
                 /\ \/ currentQuestion' /= currentQuestion
                    \/ quizComplete' /= quizComplete
                    \/ domains' /= domains)

\* The eighth question, just answered with its third option.
C30_Witness ==
    /\ lastEvent = "answer"
    /\ currentQuestion = 7
    /\ selectedAnswer = 2
    /\ showExplanation
    /\ score = 5

\* C31: whenever selectedAnswer is set it is an option index in 0..3, and no
\* click the view offers ends with a selectedAnswer outside 0..3.
C31_SelectedIsOptionIndex ==
    /\ selectedAnswer /= null => selectedAnswer \in 0..3
    /\ ~ENABLED (/\ \E index \in OptionIndices : ClickOption(index)
                 /\ selectedAnswer' \notin 0..3)

\* The third question answered with its last option.
C31_Witness ==
    /\ lastEvent = "answer"
    /\ currentQuestion = 2
    /\ selectedAnswer = 3
    /\ showExplanation

\* C32: within a session the accepted operations alternate submitAnswer,
\* advance, submitAnswer, ..., starting with submitAnswer: right after mount,
\* restart or an advance no advance can be taken, and right after a
\* submitAnswer no submitAnswer can be taken but an advance can.
C32_StrictAlternation ==
    /\ lastEvent \in {"mount", "restart", "next"} => ~ENABLED ClickNext
    /\ lastEvent = "answer" =>
          /\ ~ENABLED (\E index \in OptionIndices : ClickOption(index))
          /\ ENABLED ClickNext
    /\ (lastEvent \in {"mount", "restart", "next"} /\ ~quizComplete) =>
          ENABLED (\E index \in OptionIndices : ClickOption(index))

\* The fourth answer of a session, after three answer/advance pairs.
C32_Witness ==
    /\ lastEvent = "answer"
    /\ currentQuestion = 3
    /\ answersAccepted = 4
    /\ score = 0

\* C33: a session starts at question 0; within it currentIndex never decreases
\* and never jumps by more than 1; question k is left only when exactly k + 1
\* answers have been accepted in the session, one for each question so far;
\* and the session is Complete only at the last question, with exactly one
\* answer accepted for each of the total questions.
C33_EveryQuestionOnceInOrder ==
    /\ lastEvent \in {"mount", "restart"} => currentQuestion = 0
    /\ ~ENABLED (/\ (\E index \in OptionIndices : ClickOption(index)) \/ ClickNext
                 /\ currentQuestion' \notin {currentQuestion, currentQuestion + 1})
    /\ ~ENABLED (/\ ClickNext
                 /\ \/ currentQuestion' /= currentQuestion /\ answersAccepted /= currentQuestion + 1
                    \/ quizComplete' /\ answersAccepted /= Total)
    /\ ~quizComplete => answersAccepted \in {currentQuestion, currentQuestion + 1}
    /\ quizComplete => currentQuestion = Total - 1 /\ answersAccepted = Total

\* Complete after one answer to each question, two of them correct.
C33_Witness ==
    /\ quizComplete
    /\ currentQuestion = Total - 1
    /\ answersAccepted = Total
    /\ score = 2

\* C34: when a session is Complete, the final score equals the number of its
\* questions whose submitted option index was the question's correct index.
C34_FinalScoreCountsCorrect ==
    quizComplete => score = correctSubmitted

\* Complete after three correct and fifty-six incorrect answers.
C34_Witness ==
    /\ quizComplete
    /\ answersAccepted = Total
    /\ correctSubmitted = 3
    /\ score = 3

\* C35: if the user keeps answering the current question and pressing Next
\* without restarting, the session eventually is Complete, after exactly total
\* submitAnswer steps and total advance steps.
C35_EventuallyComplete ==
    <>(quizComplete /\ answersAccepted = Total /\ advancesTaken = Total)

\* Complete after total answers, all correct, and total advances.
C35_Witness ==
    /\ quizComplete
    /\ answersAccepted = Total
    /\ advancesTaken = Total
    /\ score = Total

\* C36 (as claimed): when two answer events are handled against the same
\* rendered snapshot, the resulting state is one a single submitAnswer could
\* have produced: the score rose by 1 iff the finally recorded selectedAnswer
\* is the correct index, and by 0 otherwise.
C36_TwoAnswersLikeOne ==
    ~ENABLED (/\ \E a \in OptionIndices, b \in OptionIndices : TwoAnswerEvents(a, b)
              /\ score' /= score + (IF selectedAnswer' = currentQ.correct THEN 1 ELSE 0))

\* C37: when advance is handled twice against the same rendered snapshot,
\* currentIndex moves forward by exactly one, to a question with no answer
\* recorded; on the last question the session becomes Complete and
\* currentIndex stays.
C37_TwoAdvancesLikeOne ==
    ~ENABLED (/\ TwoNextEvents
              /\ ~ IF currentQuestion < Total - 1
                   THEN /\ currentQuestion' = currentQuestion + 1
                        /\ ~quizComplete'
                        /\ ~showExplanation'
                        /\ selectedAnswer' = null
                        /\ score' = score
                   ELSE /\ currentQuestion' = currentQuestion
                        /\ quizComplete'
                        /\ score' = score)

\* The second question on display after two Next events were handled on the
\* first.
C37_Witness ==
    /\ lastEvent = "next"
    /\ currentQuestion = 1
    /\ advancesTaken = 2
    /\ ~showExplanation

\* subdomain followed by tld is primary, and tld is an entry of the fixed TLD
\* list, whose only dot is its first character.
RoundTripOK(d) ==
    /\ d.subdomain \o d.tld = d.primary
    /\ \E t \in 1..Len(tlds) : d.tld = tlds[t]
    /\ { i \in 1..Len(d.tld) : d.tld[i] = "." } = {1}

\* C38: for every generated DomainSet, subdomain concatenated with tld gives
\* back primary exactly and tld is one of the fixed TLD strings, beginning with
\* a single dot: for the object a finished generation has stored, and for the
\* object built from any word and TLD of the full lists as primary.
C38_SubdomainTldRoundTrip ==
    /\ gen.pc = "done" => RoundTripOK(domains)
    /\ \A w \in 1..Len(domainWords), t \in 1..Len(tlds) :
          RoundTripOK(DomainSet(getRandomDomain(w, t),
                                getRandomDomain(1, 1), getRandomDomain(1, 2)))

\* A finished generation whose primary is stellar.org.
C38_Witness ==
    /\ gen.pc = "done"
    /\ domains.primary = <<"s","t","e","l","l","a","r",".","o","r","g">>
    /\ domains.subdomain \o domains.tld = domains.primary

====
